---- MODULE Spec2Model ----
(***************************************************************************)
(* The client-side session lifecycle of insight-weave-cms:                 *)
(*   - AuthProvider (context/AuthContext): user, isLoading, the            *)
(*     accessToken and refreshToken cookies, refreshUser / login /         *)
(*     register / logout and the mount effect;                             *)
(*   - Profile page: the update mutation whose onSuccess calls refreshUser;*)
(*   - CreateContent page: analyzeContent, the two submit buttons, the     *)
(*     react-hook-form submit pipeline and the create mutation.            *)
(* JavaScript is single threaded: every action below is one run-to-        *)
(* completion piece of a handler, i.e. the code from its start (or from    *)
(* the resumption of an await) to its next await or its end.               *)
(***************************************************************************)
EXTENDS Naturals, Sequences, FiniteSets

\* ------------------------------------------------------------------ bounds
\* User-initiated operations per behaviour (login, register, logout,
\* profile submit, body edit, analysis click, submit-button click).
MaxOps == 3
\* Longest body text typed into the content form.
MaxBodyLen == 11

\* ------------------------------------------------------------- value sets
Null == "null"
Users == {"u1", "u2"}
AccessTokens == {"t1", "t2"}
RefreshTokens == {"r1"}
Analyses == {"a1"}
\* analyzeContent returns early below this body length (CreateContent.tsx:51).
MinAnalyzeLen == 10

VARIABLES
    mounted,        \* the AuthProvider mount effect has run
    user,           \* useState<User | null>(null)
    isLoading,      \* useState(true)
    accessToken,    \* cookie 'accessToken' (Null = not set)
    refreshToken,   \* cookie 'refreshToken' (Null = not set)
    refreshP,       \* one promise state per refreshUser() invocation, in call order
    pendingLogin,   \* POST /auth/login requests awaiting their response
    pendingRegister,\* POST /auth/register requests awaiting their response
    pendingLogout,  \* POST /auth/logout notifications awaiting their response
    pendingUpdate,  \* PUT /users/me (profile) requests awaiting their response
    body,           \* length of the watched 'body' field of the content form
    aiAnalysis,     \* useState<any>(null)
    isAnalyzing,    \* useState(false)
    pendingAnalyze, \* POST /content/analyze requests awaiting their response
    formStatus,     \* the form value 'status'
    isSubmitting,   \* react-hook-form formState.isSubmitting
    formPc,         \* position of the submit pipeline of the content form
    submitter,      \* the button whose click raised the submit event in progress
    submitData,     \* the status the submit handler read from the form values
    payload,        \* the status field of the latest POST /content payload
    pendingCreate,  \* POST /content requests awaiting their response
    pageMounted,    \* the CreateContent instance is mounted (until navigate('/'))
    ops,            \* user-initiated operations so far
    last,           \* observation of the step just taken
    hist            \* what the operations in flight have seen written

vars == <<mounted, user, isLoading, accessToken, refreshToken, refreshP,
          pendingLogin, pendingRegister, pendingLogout, pendingUpdate,
          body, aiAnalysis, isAnalyzing, pendingAnalyze, formStatus,
          isSubmitting, formPc, submitter, submitData, payload, pendingCreate,
          pageMounted, ops, last, hist>>

authVars == <<user, isLoading, accessToken, refreshToken>>
authNet == <<pendingLogin, pendingRegister, pendingLogout, pendingUpdate>>
analysisVars == <<aiAnalysis, isAnalyzing, pendingAnalyze>>
formVars == <<formStatus, isSubmitting, formPc, submitter, submitData, payload,
              pendingCreate>>
pageVars == <<body, analysisVars, formVars, pageMounted>>
authAll == <<mounted, authVars, refreshP, authNet>>

\* The program state a step starts from, kept in last.pre: the session
\* state for the steps of AuthContext and Profile, the page state for the
\* steps of CreateContent.
AuthSnapshot ==
    [user |-> user, isLoading |-> isLoading,
     accessToken |-> accessToken, refreshToken |-> refreshToken]

PageSnapshot ==
    [aiAnalysis |-> aiAnalysis, isAnalyzing |-> isAnalyzing,
     pendingAnalyze |-> pendingAnalyze, formStatus |-> formStatus,
     payload |-> payload]

\* op: the step; arg: its input (response kind, button); sent: the request
\* the step issued ("none" if none); settled: how the promise the step
\* completes was settled towards its caller ("none" if it completes none).
\* data: the payload of the response the step handled.
NoData == [user |-> Null, token |-> Null]

ObsData(op, arg, data, sent, settled) ==
    [op |-> op, arg |-> arg, data |-> data, sent |-> sent, settled |-> settled,
     pre |-> AuthSnapshot]

Obs(op, arg, sent, settled) == ObsData(op, arg, NoData, sent, settled)

ObsPage(op, arg, sent, settled) ==
    [op |-> op, arg |-> arg, data |-> NoData, sent |-> sent, settled |-> settled,
     pre |-> PageSnapshot]

\* The browser dispatches the click handler of a submit button and the
\* form's submit event in one task: nothing else runs between the two.
Ready == mounted /\ formPc # "clicked"
CanStart == Ready /\ ops < MaxOps

Init ==
    /\ mounted = FALSE
    /\ user = Null
    /\ isLoading = TRUE
    /\ accessToken \in AccessTokens \cup {Null}
    /\ refreshToken \in RefreshTokens \cup {Null}
    /\ refreshP = <<>>
    /\ pendingLogin = 0
    /\ pendingRegister = 0
    /\ pendingLogout = 0
    /\ pendingUpdate = 0
    /\ body = 0
    /\ aiAnalysis = Null
    /\ isAnalyzing = FALSE
    /\ pendingAnalyze = 0
    /\ formStatus = "draft"
    /\ isSubmitting = FALSE
    /\ formPc = "idle"
    /\ submitter = "none"
    /\ submitData = "none"
    /\ payload = Null
    /\ pendingCreate = 0
    /\ pageMounted = TRUE
    /\ ops = 0
    /\ last = [op |-> "init", arg |-> "none", data |-> NoData, sent |-> "none", settled |-> "none",
               pre |-> [user |-> Null, isLoading |-> TRUE,
                        accessToken |-> accessToken, refreshToken |-> refreshToken]]
    /\ hist = [seen |-> [k \in {"refresh", "login", "register", "analyze"} |-> {}],
               raced |-> {}, loggedOut |-> FALSE]

\* ------------------------------------------------------------ AuthContext

\* refreshUser() without the early return of the no-token branch: the
\* request goes out whatever the cookie holds.
RefreshUserStartAlwaysFetches(op) ==
    /\ isLoading' = isLoading
    /\ refreshP' = Append(refreshP, "pending")
    /\ last' = Obs(op, IF accessToken = Null THEN "notoken" ELSE "token",
                   "GET /users/me", "none")

\* refreshUser(), from its call to its first await or early return:
\* no token -> setIsLoading(false) and return (the promise is fulfilled);
\* otherwise GET /users/me is sent and the invocation awaits.
RefreshUserStart(op) ==
    IF accessToken = Null
    THEN /\ isLoading' = FALSE
         /\ refreshP' = Append(refreshP, "fulfilled")
         /\ last' = Obs(op, "notoken", "none", "fulfilled")
    ELSE /\ isLoading' = isLoading
         /\ refreshP' = Append(refreshP, "pending")
         /\ last' = Obs(op, "token", "GET /users/me", "none")

\* useEffect(() => { refreshUser(); }, [])
Mount ==
    /\ ~mounted
    /\ mounted' = TRUE
    /\ RefreshUserStart("mount")
    /\ UNCHANGED <<user, accessToken, refreshToken, authNet, pageVars, ops>>

\* The success branch without the finally block.
RefreshResolveOkKeepsLoading(i, u) ==
    /\ Ready
    /\ refreshP[i] = "pending"
    /\ user' = u
    /\ refreshP' = [refreshP EXCEPT ![i] = "fulfilled"]
    /\ last' = ObsData(IF i = 1 THEN "mountRefreshDone" ELSE "refreshDone", "ok",
                        [user |-> u, token |-> Null], "none", "fulfilled")
    /\ UNCHANGED <<mounted, isLoading, accessToken, refreshToken, authNet, pageVars, ops>>

\* refreshUser resumed: GET /users/me resolved with response.data.status
\* truthy (u is response.data.data); then the finally block.
RefreshResolveOk(i, u) ==
    /\ Ready
    /\ refreshP[i] = "pending"
    /\ user' = u
    /\ isLoading' = FALSE
    /\ refreshP' = [refreshP EXCEPT ![i] = "fulfilled"]
    /\ last' = ObsData(IF i = 1 THEN "mountRefreshDone" ELSE "refreshDone", "ok",
                        [user |-> u, token |-> Null], "none", "fulfilled")
    /\ UNCHANGED <<mounted, accessToken, refreshToken, authNet, pageVars, ops>>

\* refreshUser resumed: GET /users/me resolved with a falsy status: the
\* if is skipped, nothing is thrown, the catch block does not run.
RefreshResolveNoStatus(i) ==
    /\ Ready
    /\ refreshP[i] = "pending"
    /\ isLoading' = FALSE
    /\ refreshP' = [refreshP EXCEPT ![i] = "fulfilled"]
    /\ last' = Obs(IF i = 1 THEN "mountRefreshDone" ELSE "refreshDone", "nostatus", "none", "fulfilled")
    /\ UNCHANGED <<mounted, user, accessToken, refreshToken, authNet, pageVars, ops>>

\* The failure branch without the finally block.
RefreshRejectNoFinally(i) ==
    /\ Ready
    /\ refreshP[i] = "pending"
    /\ accessToken' = Null
    /\ refreshToken' = Null
    /\ refreshP' = [refreshP EXCEPT ![i] = "fulfilled"]
    /\ last' = Obs(IF i = 1 THEN "mountRefreshDone" ELSE "refreshDone", "reject", "none", "fulfilled")
    /\ UNCHANGED <<mounted, user, isLoading, authNet, pageVars, ops>>

\* refreshUser resumed: GET /users/me rejected (or reading the response
\* threw): catch removes both cookies, finally clears the loading flag.
RefreshReject(i) ==
    /\ Ready
    /\ refreshP[i] = "pending"
    /\ accessToken' = Null
    /\ refreshToken' = Null
    /\ isLoading' = FALSE
    /\ refreshP' = [refreshP EXCEPT ![i] = "fulfilled"]
    /\ last' = Obs(IF i = 1 THEN "mountRefreshDone" ELSE "refreshDone", "reject", "none", "fulfilled")
    /\ UNCHANGED <<mounted, user, authNet, pageVars, ops>>

\* login(email, password) up to its await: POST /auth/login is sent.
Login ==
    /\ CanStart
    /\ pendingLogin' = pendingLogin + 1
    /\ ops' = ops + 1
    /\ last' = Obs("login", "none", "POST /auth/login", "none")
    /\ UNCHANGED <<mounted, authVars, refreshP, pendingRegister, pendingLogout,
                   pendingUpdate, pageVars>>

\* login that sets the user and forgets Cookies.set.
LoginResolveOkNoCookie(t, u) ==
    /\ Ready
    /\ pendingLogin > 0
    /\ pendingLogin' = pendingLogin - 1
    /\ user' = u
    /\ last' = ObsData("loginDone", "ok", [user |-> u, token |-> t], "none", "fulfilled")
    /\ UNCHANGED <<mounted, isLoading, accessToken, refreshToken, refreshP,
                   pendingRegister, pendingLogout, pendingUpdate, pageVars, ops>>

\* login resumed with a truthy status: the cookie is set, then setUser.
LoginResolveOk(t, u) ==
    /\ Ready
    /\ pendingLogin > 0
    /\ pendingLogin' = pendingLogin - 1
    /\ accessToken' = t
    /\ user' = u
    /\ last' = ObsData("loginDone", "ok", [user |-> u, token |-> t], "none", "fulfilled")
    /\ UNCHANGED <<mounted, isLoading, refreshToken, refreshP, pendingRegister,
                   pendingLogout, pendingUpdate, pageVars, ops>>

\* login resumed with a falsy status: nothing is written, nothing thrown.
LoginResolveNoStatus ==
    /\ Ready
    /\ pendingLogin > 0
    /\ pendingLogin' = pendingLogin - 1
    /\ last' = Obs("loginDone", "nostatus", "none", "fulfilled")
    /\ UNCHANGED <<mounted, authVars, refreshP, pendingRegister, pendingLogout,
                   pendingUpdate, pageVars, ops>>

\* login resumed with a rejection: there is no try, the async function
\* rejects towards its caller.
LoginReject ==
    /\ Ready
    /\ pendingLogin > 0
    /\ pendingLogin' = pendingLogin - 1
    /\ last' = Obs("loginDone", "reject", "none", "rejected")
    /\ UNCHANGED <<mounted, authVars, refreshP, pendingRegister, pendingLogout,
                   pendingUpdate, pageVars, ops>>

\* register(name, email, password) up to its await.
Register ==
    /\ CanStart
    /\ pendingRegister' = pendingRegister + 1
    /\ ops' = ops + 1
    /\ last' = Obs("register", "none", "POST /auth/register", "none")
    /\ UNCHANGED <<mounted, authVars, refreshP, pendingLogin, pendingLogout,
                   pendingUpdate, pageVars>>

\* register that persists a token the way login does.
RegisterResolveOkSetsCookie(u) ==
    /\ Ready
    /\ pendingRegister > 0
    /\ pendingRegister' = pendingRegister - 1
    /\ user' = u
    /\ accessToken' \in AccessTokens
    /\ last' = ObsData("registerDone", "ok", [user |-> u, token |-> Null], "none", "fulfilled")
    /\ UNCHANGED <<mounted, isLoading, refreshToken, refreshP,
                   pendingLogin, pendingLogout, pendingUpdate, pageVars, ops>>

\* register resumed with a truthy status: setUser(response.data.data).
RegisterResolveOk(u) ==
    /\ Ready
    /\ pendingRegister > 0
    /\ pendingRegister' = pendingRegister - 1
    /\ user' = u
    /\ last' = ObsData("registerDone", "ok", [user |-> u, token |-> Null], "none", "fulfilled")
    /\ UNCHANGED <<mounted, isLoading, accessToken, refreshToken, refreshP,
                   pendingLogin, pendingLogout, pendingUpdate, pageVars, ops>>

RegisterResolveNoStatus ==
    /\ Ready
    /\ pendingRegister > 0
    /\ pendingRegister' = pendingRegister - 1
    /\ last' = Obs("registerDone", "nostatus", "none", "fulfilled")
    /\ UNCHANGED <<mounted, authVars, refreshP, pendingLogin, pendingLogout,
                   pendingUpdate, pageVars, ops>>

RegisterReject ==
    /\ Ready
    /\ pendingRegister > 0
    /\ pendingRegister' = pendingRegister - 1
    /\ last' = Obs("registerDone", "reject", "none", "rejected")
    /\ UNCHANGED <<mounted, authVars, refreshP, pendingLogin, pendingLogout,
                   pendingUpdate, pageVars, ops>>

\* logout that forgets Cookies.remove('refreshToken').
LogoutKeepsRefreshToken ==
    /\ CanStart
    /\ accessToken' = Null
    /\ user' = Null
    /\ pendingLogout' = pendingLogout + 1
    /\ ops' = ops + 1
    /\ last' = Obs("logout", "none", "POST /auth/logout", "none")
    /\ UNCHANGED <<mounted, isLoading, refreshToken, refreshP, pendingLogin,
                   pendingRegister, pendingUpdate, pageVars>>

\* logout(): synchronous; removes both cookies, setUser(null), then sends
\* the notification without awaiting it.
Logout ==
    /\ CanStart
    /\ accessToken' = Null
    /\ refreshToken' = Null
    /\ user' = Null
    /\ pendingLogout' = pendingLogout + 1
    /\ ops' = ops + 1
    /\ last' = Obs("logout", "none", "POST /auth/logout", "none")
    /\ UNCHANGED <<mounted, isLoading, refreshP, pendingLogin, pendingRegister,
                   pendingUpdate, pageVars>>

\* The notification resolved: its value is dropped.
LogoutNotifyResolve ==
    /\ Ready
    /\ pendingLogout > 0
    /\ pendingLogout' = pendingLogout - 1
    /\ last' = Obs("logoutNotified", "ok", "none", "none")
    /\ UNCHANGED <<mounted, authVars, refreshP, pendingLogin, pendingRegister,
                   pendingUpdate, pageVars, ops>>

\* The notification rejected: .catch(() => {}) fulfils the chained promise.
LogoutNotifyReject ==
    /\ Ready
    /\ pendingLogout > 0
    /\ pendingLogout' = pendingLogout - 1
    /\ last' = Obs("logoutNotified", "reject", "none", "fulfilled")
    /\ UNCHANGED <<mounted, authVars, refreshP, pendingLogin, pendingRegister,
                   pendingUpdate, pageVars, ops>>

\* ---------------------------------------------------------------- Profile

\* onSubmit -> updateProfileMutation.mutate(data): PUT /users/me is sent.
\* The page renders nothing (no form) while user is null.
UpdateProfile ==
    /\ CanStart
    /\ user # Null
    /\ pendingUpdate' = pendingUpdate + 1
    /\ ops' = ops + 1
    /\ last' = Obs("updateProfile", "none", "PUT /users/me", "none")
    /\ UNCHANGED <<mounted, authVars, refreshP, pendingLogin, pendingRegister,
                   pendingLogout, pageVars>>

\* mutationFn resolved: onSuccess shows the toast and calls refreshUser().
UpdateResolve ==
    /\ Ready
    /\ pendingUpdate > 0
    /\ pendingUpdate' = pendingUpdate - 1
    /\ RefreshUserStart("refresh")
    /\ UNCHANGED <<mounted, user, accessToken, refreshToken, pendingLogin,
                   pendingRegister, pendingLogout, pageVars, ops>>

\* mutationFn rejected: onError shows the toast.
UpdateReject ==
    /\ Ready
    /\ pendingUpdate > 0
    /\ pendingUpdate' = pendingUpdate - 1
    /\ last' = Obs("updateFailed", "reject", "none", "none")
    /\ UNCHANGED <<mounted, authVars, refreshP, pendingLogin, pendingRegister,
                   pendingLogout, pageVars, ops>>

\* ---------------------------------------------------------- CreateContent

\* The 'body' textarea is edited: watch('body') yields the new text.
TypeBody(n) ==
    /\ CanStart
    /\ pageMounted
    /\ n # body
    /\ body' = n
    /\ ops' = ops + 1
    /\ last' = ObsPage("type", "none", "none", "none")
    /\ UNCHANGED <<authAll, analysisVars, formVars, pageMounted>>

\* The button disabled on an empty body only.
AnalyzeDisabledIgnoresInFlight == body = 0

\* disabled={isAnalyzing || !watchedBody} of the AI Analysis button.
AnalyzeDisabled == isAnalyzing \/ body = 0

\* if (!watchedBody || watchedBody.length < 10) return;
AnalyzeTooShort == body = 0 \/ body < MinAnalyzeLen

\* analyzeContent() from its call to its await or early return.
AnalyzeContentStart ==
    IF AnalyzeTooShort
    THEN /\ last' = ObsPage("analyze", "short", "none", "fulfilled")
         /\ UNCHANGED analysisVars
    ELSE /\ isAnalyzing' = TRUE
         /\ pendingAnalyze' = pendingAnalyze + 1
         /\ last' = ObsPage("analyze", "sent", "POST /content/analyze", "none")
         /\ UNCHANGED aiAnalysis

\* The user triggers the AI Analysis button; a disabled button raises no
\* click event, an enabled one runs analyzeContent.
ClickAnalyze ==
    /\ CanStart
    /\ pageMounted
    /\ ops' = ops + 1
    /\ IF AnalyzeDisabled
       THEN /\ last' = ObsPage("analyze", "disabled", "none", "none")
            /\ UNCHANGED analysisVars
       ELSE AnalyzeContentStart
    /\ UNCHANGED <<authAll, body, formVars, pageMounted>>

\* analyzeContent resumed with a truthy status: setAiAnalysis, the toast,
\* then finally setIsAnalyzing(false).  State setters of an unmounted
\* component change nothing.
AnalyzeResolveOk(a) ==
    /\ Ready
    /\ pendingAnalyze > 0
    /\ pendingAnalyze' = pendingAnalyze - 1
    /\ IF pageMounted
       THEN aiAnalysis' = a /\ isAnalyzing' = FALSE
       ELSE UNCHANGED <<aiAnalysis, isAnalyzing>>
    /\ last' = ObsPage("analyzeDone", "ok", "none", "fulfilled")
    /\ UNCHANGED <<authAll, body, formVars, pageMounted, ops>>

\* analyzeContent resumed with a falsy status, or with a rejection that
\* the catch block logs: only finally setIsAnalyzing(false).
AnalyzeResolveOther(kind) ==
    /\ Ready
    /\ pendingAnalyze > 0
    /\ pendingAnalyze' = pendingAnalyze - 1
    /\ IF pageMounted
       THEN isAnalyzing' = FALSE
       ELSE UNCHANGED isAnalyzing
    /\ last' = ObsPage("analyzeDone", kind, "none", "fulfilled")
    /\ UNCHANGED <<authAll, body, aiAnalysis, formVars, pageMounted, ops>>

\* A submit button without its onClick: the status keeps its old value.
ClickSubmitNoSetValue(s) ==
    /\ CanStart
    /\ pageMounted
    /\ ~isSubmitting
    /\ formPc = "idle"
    /\ submitter' = s
    /\ formPc' = "clicked"
    /\ ops' = ops + 1
    /\ last' = ObsPage("click", s, "none", "none")
    /\ UNCHANGED <<authAll, body, analysisVars, formStatus, isSubmitting, submitData,
                   payload, pendingCreate, pageMounted>>

\* onClick of a submit button: setValue('status', s).  Both buttons are
\* disabled={isSubmitting}.  The click is followed by the form's submit
\* event (type="submit").
ClickSubmit(s) ==
    /\ CanStart
    /\ pageMounted
    /\ ~isSubmitting
    /\ formPc = "idle"
    /\ formStatus' = s
    /\ submitter' = s
    /\ formPc' = "clicked"
    /\ ops' = ops + 1
    /\ last' = ObsPage("click", s, "none", "none")
    /\ UNCHANGED <<authAll, body, analysisVars, isSubmitting, submitData, payload,
                   pendingCreate, pageMounted>>

\* <form onSubmit={handleSubmit(onSubmit)}>: handleSubmit sets
\* isSubmitting, hands the form values to the zod resolver and awaits it.
\* The resolver accepts or refuses the values; the status it hands to
\* onSubmit is the one read here (CreateContentFormData.status).
SubmitEvent ==
    /\ mounted
    /\ formPc = "clicked"
    /\ isSubmitting' = TRUE
    /\ submitData' = formStatus
    /\ formPc' = "validating"
    /\ last' = ObsPage("submitEvent", submitter, "none", "none")
    /\ UNCHANGED <<authAll, body, analysisVars, formStatus, submitter, payload,
                   pendingCreate, pageMounted, ops>>

\* mutationFn: formData.append('status', data.status); POST /content.
CreateContentPost(data) ==
    /\ payload' = data
    /\ pendingCreate' = pendingCreate + 1

\* The resolver finished.  Valid: onSubmit(data) ->
\* createContentMutation.mutate(data) -> mutationFn.  Invalid: the errors
\* are shown and onSubmit is not called.  Then isSubmitting is cleared.
ValidationDone(valid) ==
    /\ Ready
    /\ formPc = "validating"
    /\ IF valid
       THEN /\ CreateContentPost(submitData)
            /\ last' = ObsPage("submit", submitter, "POST /content", "none")
       ELSE /\ UNCHANGED <<payload, pendingCreate>>
            /\ last' = ObsPage("invalid", submitter, "none", "none")
    /\ isSubmitting' = FALSE
    /\ formPc' = "idle"
    /\ submitter' = "none"
    /\ submitData' = "none"
    /\ UNCHANGED <<authAll, body, analysisVars, formStatus, pageMounted, ops>>

\* mutationFn resolved: onSuccess shows the toast and navigate('/')
\* leaves the page.
CreateResolve ==
    /\ Ready
    /\ pendingCreate > 0
    /\ pendingCreate' = pendingCreate - 1
    /\ pageMounted' = FALSE
    /\ last' = ObsPage("createDone", "ok", "none", "none")
    /\ UNCHANGED <<authAll, body, analysisVars, formStatus, isSubmitting, formPc,
                   submitter, submitData, payload, ops>>

\* mutationFn rejected: onError shows the toast.
CreateReject ==
    /\ Ready
    /\ pendingCreate > 0
    /\ pendingCreate' = pendingCreate - 1
    /\ last' = ObsPage("createFailed", "reject", "none", "none")
    /\ UNCHANGED <<authAll, body, analysisVars, formStatus, isSubmitting, formPc,
                   submitter, submitData, payload, pageMounted, ops>>

\* ------------------------------------------------- operations in flight

\* The asynchronous operations that write shared state when they resume.
Kinds == {"refresh", "login", "register", "analyze"}

\* The operation whose code ran in the step observed as o.
Writer(o) ==
    CASE o.op \in {"mount", "refresh", "mountRefreshDone", "refreshDone"} -> "refresh"
      [] o.op \in {"login", "loginDone"} -> "login"
      [] o.op \in {"register", "registerDone"} -> "register"
      [] o.op \in {"analyze", "analyzeDone"} -> "analyze"
      [] o.op = "logout" -> "logout"
      [] OTHER -> "none"

\* The shared resources the step observed as o wrote: the setUser,
\* setIsLoading, Cookies.set / Cookies.remove and setAiAnalysis calls the
\* code of that step makes.
Written(o) ==
    CASE o.op \in {"mount", "refresh"} /\ o.arg = "notoken" -> {"isLoading"}
      [] o.op \in {"mountRefreshDone", "refreshDone"} /\ o.arg = "ok" ->
            {"user", "isLoading"}
      [] o.op \in {"mountRefreshDone", "refreshDone"} /\ o.arg = "nostatus" ->
            {"isLoading"}
      [] o.op \in {"mountRefreshDone", "refreshDone"} /\ o.arg = "reject" ->
            {"accessToken", "refreshToken", "isLoading"}
      [] o.op = "loginDone" /\ o.arg = "ok" -> {"accessToken", "user"}
      [] o.op = "registerDone" /\ o.arg = "ok" -> {"user"}
      [] o.op = "logout" -> {"accessToken", "refreshToken", "user"}
      [] o.op = "analyzeDone" /\ o.arg = "ok" /\ pageMounted -> {"aiAnalysis"}
      [] OTHER -> {}

\* The kind of operation the step observed as o put in flight.
Started(o) ==
    CASE o.op \in {"mount", "refresh"} /\ o.arg = "token" -> "refresh"
      [] o.op = "login" -> "login"
      [] o.op = "register" -> "register"
      [] o.op = "analyze" /\ o.arg = "sent" -> "analyze"
      [] OTHER -> "none"

\* The step observed as o resumed an operation that was in flight.
Resumed(o) ==
    o.op \in {"mountRefreshDone", "refreshDone", "loginDone", "registerDone",
              "analyzeDone"}

\* The operations of kind k awaiting their response.
InFlight(k) ==
    CASE k = "refresh" -> Cardinality({i \in 1..Len(refreshP) : refreshP[i] = "pending"})
      [] k = "login" -> pendingLogin
      [] k = "register" -> pendingRegister
      [] k = "analyze" -> pendingAnalyze

\* The resources an operation of kind k writes when it resumes.
Writes(k) ==
    CASE k = "refresh" -> {"user", "isLoading", "accessToken", "refreshToken"}
      [] k = "login" -> {"accessToken", "user"}
      [] k = "register" -> {"user"}
      [] k = "analyze" -> {"aiAnalysis"}

\* Bookkeeping of the step just taken (it reads last', the observation
\* the step left):
\*   seen[k]   the resources k writes that some other operation wrote
\*             while every operation of kind k now in flight was already
\*             in flight (emptied when a new one of kind k starts);
\*   raced     the resources the step wrote on resuming an operation that
\*             had seen them written by another operation since it started;
\*   loggedOut logout was called and neither login nor register since.
Track ==
    hist' = [seen |-> [k \in Kinds |->
                          IF Started(last') = k \/ InFlight(k)' = 0
                          THEN {}
                          ELSE hist.seen[k] \cup (Written(last') \cap Writes(k))],
             raced |-> IF Resumed(last')
                       THEN Written(last') \cap hist.seen[Writer(last')]
                       ELSE {},
             loggedOut |-> IF last'.op = "logout" THEN TRUE
                           ELSE IF last'.op \in {"login", "register"} THEN FALSE
                           ELSE hist.loggedOut]

\* The steps of the session: AuthContext and the Profile page, each with
\* its bookkeeping.
AuthNext ==
    \/ Mount /\ Track
    \/ \E i \in 1..Len(refreshP), u \in Users : RefreshResolveOk(i, u) /\ Track
    \/ \E i \in 1..Len(refreshP) : RefreshResolveNoStatus(i) /\ Track
    \/ \E i \in 1..Len(refreshP) : RefreshReject(i) /\ Track
    \/ Login /\ Track
    \/ \E t \in AccessTokens, u \in Users : LoginResolveOk(t, u) /\ Track
    \/ LoginResolveNoStatus /\ Track
    \/ LoginReject /\ Track
    \/ Register /\ Track
    \/ \E u \in Users : RegisterResolveOk(u) /\ Track
    \/ RegisterResolveNoStatus /\ Track
    \/ RegisterReject /\ Track
    \/ Logout /\ Track
    \/ LogoutNotifyResolve /\ Track
    \/ LogoutNotifyReject /\ Track
    \/ UpdateProfile /\ Track
    \/ UpdateResolve /\ Track
    \/ UpdateReject /\ Track

\* The steps of the CreateContent page.
PageNext ==
    \/ \E n \in 0..MaxBodyLen : TypeBody(n) /\ Track
    \/ ClickAnalyze /\ Track
    \/ \E a \in Analyses : AnalyzeResolveOk(a) /\ Track
    \/ \E kind \in {"nostatus", "reject"} : AnalyzeResolveOther(kind) /\ Track
    \/ \E s \in {"published", "draft"} : ClickSubmit(s) /\ Track
    \/ SubmitEvent /\ Track
    \/ \E valid \in BOOLEAN : ValidationDone(valid) /\ Track
    \/ CreateResolve /\ Track
    \/ CreateReject /\ Track

Next == AuthNext \/ PageNext

Spec == Init /\ [][Next]_vars

\* The response to the GET /users/me of invocation i arrives.
RefreshResponse(i) ==
    /\ i \in 1..Len(refreshP)
    /\ \/ \E u \in Users : RefreshResolveOk(i, u)
       \/ RefreshResolveNoStatus(i)
       \/ RefreshReject(i)

\* refreshUser runs once on mount and once per resolved profile update.
MaxRefreshCalls == MaxOps + 1

\* The session on its own (the CreateContent page writes none of its
\* state), with every GET /users/me answered: resolved or rejected.
AuthFairSpec ==
    /\ Init
    /\ [][AuthNext]_vars
    /\ \A i \in 1..MaxRefreshCalls : WF_vars(RefreshResponse(i) /\ Track)

\* ----------------------------------------------------------------- claims

RefreshDone == last.op \in {"mountRefreshDone", "refreshDone"}
PendingRefresh == {i \in 1..Len(refreshP) : refreshP[i] = "pending"}

\* C1: whenever refreshUser ran with a token persisted and GET /users/me
\* failed (it rejected, or resolved with a falsy status), then on
\* completion both cookies are removed, the user is absent and loading is
\* false.
C1_FailedRefreshClearsSession ==
    (RefreshDone /\ last.arg \in {"nostatus", "reject"})
        => /\ accessToken = Null
           /\ refreshToken = Null
           /\ user = Null
           /\ isLoading = FALSE

\* C2: in every reachable state, no accessToken cookie implies no user.
C2_NoTokenNoUser == (accessToken = Null) => (user = Null)

\* C3: when login's request resolves successfully the returned token is
\* in the accessToken cookie and the user is the response's user; when it
\* rejects, user and both cookies are as before and login's promise is
\* rejected towards its caller.
C3_Login ==
    /\ (last.op = "loginDone" /\ last.arg = "ok")
          => /\ accessToken = last.data.token
             /\ user = last.data.user
             /\ last.settled = "fulfilled"
    /\ (last.op = "loginDone" /\ last.arg = "reject")
          => /\ user = last.pre.user
             /\ accessToken = last.pre.accessToken
             /\ refreshToken = last.pre.refreshToken
             /\ last.settled = "rejected"

\* A successful login that replaced both another user and another token.
C3_Witness ==
    /\ last.op = "loginDone" /\ last.arg = "ok"
    /\ last.pre.user \notin {Null, user}
    /\ last.pre.accessToken \notin {Null, accessToken}

\* C4: when logout returns, both cookies are removed and the user is
\* absent, whatever the state before and while the notification is still
\* in flight; the notification's resolution or rejection changes no
\* session state and rejects towards nobody.
C4_Logout ==
    /\ (last.op = "logout")
          => /\ accessToken = Null
             /\ refreshToken = Null
             /\ user = Null
             /\ pendingLogout > 0
    /\ (last.op = "logoutNotified")
          => /\ AuthSnapshot = last.pre
             /\ last.settled # "rejected"

\* logout called by an authenticated user holding both cookies while the
\* mount-time refresh is still loading.
C4_Witness ==
    /\ last.op = "logout"
    /\ last.pre.user # Null
    /\ last.pre.accessToken # Null
    /\ last.pre.refreshToken # Null
    /\ last.pre.isLoading

\* C5: mounting with no accessToken cookie sends no request and ends with
\* loading false and the user absent.
C5_MountWithoutToken ==
    (last.op = "mount" /\ last.pre.accessToken = Null)
        => /\ last.sent = "none"
           /\ PendingRefresh = {}
           /\ pendingLogin + pendingRegister + pendingLogout + pendingUpdate = 0
           /\ pendingAnalyze + pendingCreate = 0
           /\ isLoading = FALSE
           /\ user = Null

C5_Witness == last.op = "mount" /\ last.pre.accessToken = Null /\ last.pre.isLoading

\* C6: when the mount-time refreshUser's GET /users/me resolves with a
\* truthy status and record U, it completes with user = U, loading false
\* and both cookies as they were; with no other operation started since
\* the mount, the accessToken cookie it was called with is still there.
C6_MountRefreshSuccess ==
    (last.op = "mountRefreshDone" /\ last.arg = "ok")
        => /\ user = last.data.user
           /\ isLoading = FALSE
           /\ accessToken = last.pre.accessToken
           /\ refreshToken = last.pre.refreshToken
           /\ (ops = 0) => (accessToken # Null)

C6_Witness ==
    /\ last.op = "mountRefreshDone" /\ last.arg = "ok"
    /\ last.pre.isLoading
    /\ last.pre.user = Null
    /\ accessToken # Null

\* The promise of the i-th refreshUser invocation ("none" before the call).
RefreshState(i) == IF i \in 1..Len(refreshP) THEN refreshP[i] ELSE "none"

\* C7: every refreshUser invocation whose request is answered eventually
\* completes with loading false; an invocation that has completed (on the
\* no-token, success or failure path) has loading false and its promise
\* is never rejected.
C7_RefreshCompletes ==
    /\ \A i \in 1..MaxRefreshCalls :
          (RefreshState(i) = "pending")
              ~> (RefreshState(i) = "fulfilled" /\ isLoading = FALSE)
    /\ [](\A i \in 1..MaxRefreshCalls :
              /\ RefreshState(i) # "rejected"
              /\ RefreshState(i) = "fulfilled" => isLoading = FALSE)

\* The mount-time refreshUser completed through its catch block.
C7_Witness ==
    /\ last.op = "mountRefreshDone" /\ last.arg = "reject"
    /\ last.pre.isLoading
    /\ refreshP[1] = "fulfilled"
    /\ isLoading = FALSE

\* C8: when register's request resolves successfully the user is the
\* response's record and both cookies are as before; when it rejects,
\* user and cookies are as before and the rejection reaches the caller.
C8_Register ==
    /\ (last.op = "registerDone" /\ last.arg = "ok")
          => /\ user = last.data.user
             /\ accessToken = last.pre.accessToken
             /\ refreshToken = last.pre.refreshToken
             /\ last.settled = "fulfilled"
    /\ (last.op = "registerDone" /\ last.arg = "reject")
          => /\ AuthSnapshot = last.pre
             /\ last.settled = "rejected"

\* A successful register with no accessToken cookie before or after.
C8_Witness ==
    /\ last.op = "registerDone" /\ last.arg = "ok"
    /\ last.pre.accessToken = Null
    /\ accessToken = Null
    /\ user # Null

\* C9: the status of every POST /content payload is that of the button
\* that triggered the submission, and the submit handler reads the status
\* the click wrote.
C9_PayloadStatus ==
    /\ (last.op = "submit") => /\ last.sent = "POST /content"
                               /\ payload = last.arg
    /\ (formPc = "validating") => submitData = submitter

\* "Save as Draft" submitted after an earlier submission had set and
\* posted the status published.
C9_Witness ==
    /\ last.op = "submit"
    /\ last.arg = "draft"
    /\ last.pre.payload = "published"
    /\ payload = "draft"

\* C10: triggering the analysis sends nothing and changes nothing when
\* the body is shorter than 10 characters or a request is in flight;
\* otherwise it sends exactly one POST /content/analyze; at most one such
\* request is ever in flight.
C10_AnalyzeGuard ==
    /\ pendingAnalyze <= 1
    /\ (last.op = "analyze")
          => IF body < MinAnalyzeLen \/ last.pre.pendingAnalyze > 0
             THEN /\ last.sent = "none"
                  /\ PageSnapshot = last.pre
             ELSE /\ last.sent = "POST /content/analyze"
                  /\ pendingAnalyze = last.pre.pendingAnalyze + 1
                  /\ isAnalyzing

\* The analysis triggered with a long enough body while a request is in
\* flight.
C10_Witness ==
    /\ last.op = "analyze"
    /\ body >= MinAnalyzeLen
    /\ last.pre.pendingAnalyze = 1

\* C11: in every interleaving, no shared resource (user, the loading
\* flag, the two cookies, the analysis result) is written by two
\* operations that are in flight at the same time: no operation, when it
\* resumes, writes a resource another operation wrote while it was in
\* flight.
C11_NoConcurrentWrites == hist.raced = {}

\* C12: once logout has returned and until login or register is next
\* called, the user stays absent and the accessToken cookie stays removed,
\* whatever responses arrive.
C12_LogoutSticks ==
    hist.loggedOut => (user = Null /\ accessToken = Null)
====
